---- MODULE Spec2Model ----
(***************************************************************************)
(* OTPX (src/src/index.ts): the random-charset OTP generator generateOtp   *)
(* with its shorthands, and the RFC 4226 / RFC 6238 derivations hotp and   *)
(* totp.  JavaScript numbers are modelled by what the operators of the     *)
(* code do to them (ToInt32 before & and >>, floating division before      *)
(* Math.floor); Node's createHmac is modelled by HMAC (RFC 2104) over      *)
(* SHA-1, SHA-224, SHA-256 and SHA-512 (FIPS 180-4), computed on 16-bit    *)
(* limbs because TLC's integers are 32 bits wide.  The arithmetic is       *)
(* written as functions, which TLC applies to evaluated arguments.         *)
(***************************************************************************)
EXTENDS Integers, Sequences, FiniteSets, TLC

(***************************************************************************)
(* Bit operations on 16-bit limbs.                                         *)
(***************************************************************************)
Limb == 0..65535
Byte == 0..255
Bytes == Seq(Byte)

Pow2[n \in 0..16] ==
    <<1, 2, 4, 8, 16, 32, 64, 128, 256, 512, 1024, 2048, 4096, 8192, 16384, 32768,
      65536>>[n + 1]

BitAndRec[a \in Byte, b \in Byte] ==
    IF a = 0 \/ b = 0 THEN 0
    ELSE 2 * BitAndRec[a \div 2, b \div 2] + ((a % 2) * (b % 2))

\* a & b for bytes, tabulated once
AndTab == [a \in Byte |-> [b \in Byte |-> BitAndRec[a, b]]]

BitAnd[a \in Limb, b \in Limb] ==
    AndTab[a % 256][b % 256] + 256 * AndTab[a \div 256][b \div 256]
BitXor[a \in Limb, b \in Limb] == a + b - 2 * BitAnd[a, b]

\* the limb that follows prev when the pair (prev, cur) moves right by r bits
ShiftIn[prev \in Limb, cur \in Limb, r \in 1..15] ==
    ((prev % Pow2[r]) * Pow2[16 - r]) + (cur \div Pow2[r])

Zeros[n \in Nat] == IF n = 0 THEN <<>> ELSE <<0>> \o Zeros[n - 1]

(***************************************************************************)
(* 32-bit words <<hi, lo>> (SHA-1, SHA-224, SHA-256).                      *)
(***************************************************************************)
Word32 == Limb \X Limb
Words32 == Seq(Word32)

And32[x \in Word32, y \in Word32] == <<BitAnd[x[1], y[1]], BitAnd[x[2], y[2]]>>
Xor32[x \in Word32, y \in Word32] == <<BitXor[x[1], y[1]], BitXor[x[2], y[2]]>>
Not32[x \in Word32] == <<65535 - x[1], 65535 - x[2]>>
Add32[x \in Word32, y \in Word32] ==
    <<(x[1] + y[1] + ((x[2] + y[2]) \div 65536)) % 65536, (x[2] + y[2]) % 65536>>
Rotr32[x \in Word32, n \in 0..32] ==
    IF n % 16 = 0 THEN (IF n = 16 THEN <<x[2], x[1]>> ELSE x)
    ELSE IF n < 16 THEN <<ShiftIn[x[2], x[1], n], ShiftIn[x[1], x[2], n]>>
    ELSE <<ShiftIn[x[1], x[2], n - 16], ShiftIn[x[2], x[1], n - 16]>>
Rotl32[x \in Word32, n \in 0..32] == Rotr32[x, 32 - n]
Shr32[x \in Word32, n \in 1..15] == <<x[1] \div Pow2[n], ShiftIn[x[1], x[2], n]>>
Word32At[bytes \in Bytes, i \in Nat] ==
    <<bytes[i] * 256 + bytes[i + 1], bytes[i + 2] * 256 + bytes[i + 3]>>
Word32Bytes[w \in Word32] == <<w[1] \div 256, w[1] % 256, w[2] \div 256, w[2] % 256>>
Block32[block \in Bytes] ==
    <<Word32At[block, 1], Word32At[block, 5], Word32At[block, 9], Word32At[block, 13],
      Word32At[block, 17], Word32At[block, 21], Word32At[block, 25], Word32At[block, 29],
      Word32At[block, 33], Word32At[block, 37], Word32At[block, 41], Word32At[block, 45],
      Word32At[block, 49], Word32At[block, 53], Word32At[block, 57], Word32At[block, 61]>>

(***************************************************************************)
(* 64-bit words <<l3, l2, l1, l0>> (SHA-512).                              *)
(***************************************************************************)
Word64 == Limb \X Limb \X Limb \X Limb
Words64 == Seq(Word64)

And64[x \in Word64, y \in Word64] ==
    <<BitAnd[x[1], y[1]], BitAnd[x[2], y[2]], BitAnd[x[3], y[3]], BitAnd[x[4], y[4]]>>
Xor64[x \in Word64, y \in Word64] ==
    <<BitXor[x[1], y[1]], BitXor[x[2], y[2]], BitXor[x[3], y[3]], BitXor[x[4], y[4]]>>
Not64[x \in Word64] == <<65535 - x[1], 65535 - x[2], 65535 - x[3], 65535 - x[4]>>
\* the sums of the limbs with their carries, least significant limb last
Carry64[s \in Seq(Nat)] ==
    <<(s[1] + ((s[2] + ((s[3] + (s[4] \div 65536)) \div 65536)) \div 65536)) % 65536,
      (s[2] + ((s[3] + (s[4] \div 65536)) \div 65536)) % 65536,
      (s[3] + (s[4] \div 65536)) % 65536,
      s[4] % 65536>>
Add64[x \in Word64, y \in Word64] ==
    Carry64[<<x[1] + y[1], x[2] + y[2], x[3] + y[3], x[4] + y[4]>>]
\* x rotated right by q limbs
RotLimbs64[x \in Word64, q \in 0..3] ==
    <<x[((0 - q) % 4) + 1], x[((1 - q) % 4) + 1], x[((2 - q) % 4) + 1],
      x[((3 - q) % 4) + 1]>>
RotBits64[y \in Word64, r \in 0..15] ==
    IF r = 0 THEN y
    ELSE <<ShiftIn[y[4], y[1], r], ShiftIn[y[1], y[2], r], ShiftIn[y[2], y[3], r],
           ShiftIn[y[3], y[4], r]>>
Rotr64[x \in Word64, n \in 0..63] == RotBits64[RotLimbs64[x, n \div 16], n % 16]
Shr64[x \in Word64, n \in 1..15] ==
    <<x[1] \div Pow2[n], ShiftIn[x[1], x[2], n], ShiftIn[x[2], x[3], n],
      ShiftIn[x[3], x[4], n]>>
Word64At[bytes \in Bytes, i \in Nat] ==
    <<bytes[i] * 256 + bytes[i + 1], bytes[i + 2] * 256 + bytes[i + 3],
      bytes[i + 4] * 256 + bytes[i + 5], bytes[i + 6] * 256 + bytes[i + 7]>>
Word64Bytes[w \in Word64] ==
    <<w[1] \div 256, w[1] % 256, w[2] \div 256, w[2] % 256,
      w[3] \div 256, w[3] % 256, w[4] \div 256, w[4] % 256>>
Block64[block \in Bytes] ==
    <<Word64At[block, 1], Word64At[block, 9], Word64At[block, 17], Word64At[block, 25],
      Word64At[block, 33], Word64At[block, 41], Word64At[block, 49], Word64At[block, 57],
      Word64At[block, 65], Word64At[block, 73], Word64At[block, 81], Word64At[block, 89],
      Word64At[block, 97], Word64At[block, 105], Word64At[block, 113],
      Word64At[block, 121]>>

(***************************************************************************)
(* Message padding: 0x80, zeros, the bit length in lenBytes bytes.         *)
(***************************************************************************)
ShaPad[msg \in Bytes, block \in Nat, lenBytes \in Nat] ==
    msg \o <<128>> \o Zeros[(block - 1 - lenBytes - Len(msg)) % block]
        \o Zeros[lenBytes - 2] \o <<(8 * Len(msg)) \div 256, (8 * Len(msg)) % 256>>

(***************************************************************************)
(* SHA-1.                                                                  *)
(***************************************************************************)
Sha1IV ==
    << <<26437, 8961>>, <<61389, 43913>>, <<39098, 56574>>, <<4146, 21622>>,
       <<50130, 57840>> >>
Sha1K[t \in 0..79] ==
    IF t < 20 THEN <<23170, 31129>>
    ELSE IF t < 40 THEN <<28377, 60321>>
    ELSE IF t < 60 THEN <<36635, 48348>>
    ELSE <<51810, 49622>>
\* Ch and Maj are written with xor, which agrees with or on their terms
Sha1F[t \in 0..79, b \in Word32, c \in Word32, d \in Word32] ==
    IF t < 20 THEN Xor32[And32[b, c], And32[Not32[b], d]]
    ELSE IF t < 40 THEN Xor32[Xor32[b, c], d]
    ELSE IF t < 60 THEN Xor32[Xor32[And32[b, c], And32[b, d]], And32[c, d]]
    ELSE Xor32[Xor32[b, c], d]
Sha1Schedule[w \in Words32] ==
    IF Len(w) = 80 THEN w
    ELSE Sha1Schedule[Append(w, Rotl32[Xor32[Xor32[w[Len(w) - 2], w[Len(w) - 7]],
                                         Xor32[w[Len(w) - 13], w[Len(w) - 15]]], 1])]
Sha1Rounds[t \in 0..80, s \in Words32, w \in Words32] ==
    IF t = 80 THEN s
    ELSE Sha1Rounds[t + 1,
           <<Add32[Add32[Add32[Rotl32[s[1], 5], Sha1F[t, s[2], s[3], s[4]]],
                         Add32[s[5], Sha1K[t]]], w[t + 1]],
             s[1], Rotl32[s[2], 30], s[3], s[4]>>, w]
AddWords32[h \in Words32, s \in Words32] == [i \in DOMAIN h |-> Add32[h[i], s[i]]]
Sha1Compress[h \in Words32, block \in Bytes] ==
    AddWords32[h, Sha1Rounds[0, h, Sha1Schedule[Block32[block]]]]
Sha1Blocks[h \in Words32, data \in Bytes] ==
    IF Len(data) = 0 THEN h
    ELSE Sha1Blocks[Sha1Compress[h, SubSeq(data, 1, 64)], SubSeq(data, 65, Len(data))]
Words32Bytes[h \in Words32] ==
    IF Len(h) = 0 THEN <<>> ELSE Word32Bytes[Head(h)] \o Words32Bytes[Tail(h)]
Sha1[msg \in Bytes] == Words32Bytes[Sha1Blocks[Sha1IV, ShaPad[msg, 64, 8]]]

(***************************************************************************)
(* SHA-256 and SHA-224 (the same compression, another initial value, the   *)
(* digest cut to 28 bytes).                                                *)
(***************************************************************************)
Sha256K ==
    << <<17034, 12184>>, <<28983, 17553>>, <<46528, 64463>>, <<59829, 56229>>,
       <<14678, 49755>>, <<23025, 4593>>, <<37439, 33444>>, <<43804, 24277>>,
       <<55303, 43672>>, <<4739, 23297>>, <<9265, 34238>>, <<21772, 32195>>,
       <<29374, 23924>>, <<32990, 45566>>, <<39900, 1703>>, <<49563, 61812>>,
       <<58523, 27073>>, <<61374, 18310>>, <<4033, 40390>>, <<9228, 41420>>,
       <<11753, 11375>>, <<19060, 33962>>, <<23728, 43484>>, <<30457, 35034>>,
       <<38974, 20818>>, <<43057, 50797>>, <<45059, 10184>>, <<48985, 32711>>,
       <<50912, 3059>>, <<54695, 37191>>, <<1738, 25425>>, <<5161, 10599>>,
       <<10167, 2693>>, <<11803, 8504>>, <<19756, 28156>>, <<21304, 3347>>,
       <<25866, 29524>>, <<30314, 2747>>, <<33218, 51502>>, <<37490, 11397>>,
       <<41663, 59553>>, <<43034, 26187>>, <<49739, 35696>>, <<51052, 20899>>,
       <<53650, 59417>>, <<54937, 1572>>, <<62478, 13701>>, <<4202, 41072>>,
       <<6564, 49430>>, <<7735, 27656>>, <<10056, 30540>>, <<13488, 48309>>,
       <<14620, 3251>>, <<20184, 43594>>, <<23452, 51791>>, <<26670, 28659>>,
       <<29839, 33518>>, <<30885, 25455>>, <<33992, 30740>>, <<36039, 520>>,
       <<37054, 65530>>, <<42064, 27883>>, <<48889, 41975>>, <<50801, 30962>> >>

Sha256IV ==
    << <<27145, 58983>>, <<47975, 44677>>, <<15470, 62322>>, <<42319, 62778>>,
       <<20750, 21119>>, <<39685, 26764>>, <<8067, 55723>>, <<23520, 52505>> >>

Sha224IV ==
    << <<49413, 40664>>, <<13948, 54535>>, <<12400, 56599>>, <<63246, 22841>>,
       <<65472, 2865>>, <<26712, 5393>>, <<25849, 36775>>, <<48890, 20388>> >>

Sha256Ch[e \in Word32, f \in Word32, g \in Word32] ==
    Xor32[And32[e, f], And32[Not32[e], g]]
Sha256Maj[a \in Word32, b \in Word32, c \in Word32] ==
    Xor32[Xor32[And32[a, b], And32[a, c]], And32[b, c]]
Sha256BigSigma0[a \in Word32] == Xor32[Xor32[Rotr32[a, 2], Rotr32[a, 13]], Rotr32[a, 22]]
Sha256BigSigma1[e \in Word32] == Xor32[Xor32[Rotr32[e, 6], Rotr32[e, 11]], Rotr32[e, 25]]
Sha256SmallSigma0[x \in Word32] == Xor32[Xor32[Rotr32[x, 7], Rotr32[x, 18]], Shr32[x, 3]]
Sha256SmallSigma1[x \in Word32] == Xor32[Xor32[Rotr32[x, 17], Rotr32[x, 19]], Shr32[x, 10]]
Sha256Schedule[w \in Words32] ==
    IF Len(w) = 64 THEN w
    ELSE Sha256Schedule[Append(w,
             Add32[Add32[Sha256SmallSigma1[w[Len(w) - 1]], w[Len(w) - 6]],
                   Add32[Sha256SmallSigma0[w[Len(w) - 14]], w[Len(w) - 15]]])]
\* T1 = h + Sigma1(e) + Ch(e, f, g) + K[t] + W[t];  T2 = Sigma0(a) + Maj(a, b, c)
Sha256T1[t \in 0..63, s \in Words32, w \in Words32] ==
    Add32[Add32[Add32[s[8], Sha256BigSigma1[s[5]]],
                Add32[Sha256Ch[s[5], s[6], s[7]], Sha256K[t + 1]]], w[t + 1]]
Sha256Step[s \in Words32, t1 \in Word32, t2 \in Word32] ==
    <<Add32[t1, t2], s[1], s[2], s[3], Add32[s[4], t1], s[5], s[6], s[7]>>
Sha256Rounds[t \in 0..64, s \in Words32, w \in Words32] ==
    IF t = 64 THEN s
    ELSE Sha256Rounds[t + 1, Sha256Step[s, Sha256T1[t, s, w],
                               Add32[Sha256BigSigma0[s[1]], Sha256Maj[s[1], s[2], s[3]]]], w]
Sha256Compress[h \in Words32, block \in Bytes] ==
    AddWords32[h, Sha256Rounds[0, h, Sha256Schedule[Block32[block]]]]
Sha256Blocks[h \in Words32, data \in Bytes] ==
    IF Len(data) = 0 THEN h
    ELSE Sha256Blocks[Sha256Compress[h, SubSeq(data, 1, 64)],
                      SubSeq(data, 65, Len(data))]
Sha256[msg \in Bytes] == Words32Bytes[Sha256Blocks[Sha256IV, ShaPad[msg, 64, 8]]]
Sha224[msg \in Bytes] ==
    SubSeq(Words32Bytes[Sha256Blocks[Sha224IV, ShaPad[msg, 64, 8]]], 1, 28)

(***************************************************************************)
(* SHA-512.                                                                *)
(***************************************************************************)
Sha512K ==
    << <<17034, 12184, 55080, 44578>>, <<28983, 17553, 9199, 26061>>,
       <<46528, 64463, 60493, 15151>>, <<59829, 56229, 33161, 56252>>,
       <<14678, 49755, 62280, 46392>>, <<23025, 4593, 46597, 53273>>,
       <<37439, 33444, 44825, 20379>>, <<43804, 24277, 55917, 33048>>,
       <<55303, 43672, 41731, 578>>, <<4739, 23297, 17776, 28606>>,
       <<9265, 34238, 20196, 45708>>, <<21772, 32195, 54783, 46306>>,
       <<29374, 23924, 62075, 35183>>, <<32990, 45566, 15126, 38577>>,
       <<39900, 1703, 9671, 4661>>, <<49563, 61812, 53097, 9876>>,
       <<58523, 27073, 40689, 19154>>, <<61374, 18310, 14415, 9699>>,
       <<4033, 40390, 35724, 54709>>, <<9228, 41420, 30636, 40037>>,
       <<11753, 11375, 22827, 629>>, <<19060, 33962, 28326, 58499>>,
       <<23728, 43484, 48449, 64468>>, <<30457, 35034, 33553, 21429>>,
       <<38974, 20818, 61030, 57259>>, <<43057, 50797, 11700, 12816>>,
       <<45059, 10184, 39163, 8511>>, <<48985, 32711, 48879, 3812>>,
       <<50912, 3059, 15784, 36802>>, <<54695, 37191, 37642, 42789>>,
       <<1738, 25425, 57347, 33391>>, <<5161, 10599, 2574, 28272>>,
       <<10167, 2693, 18130, 12284>>, <<11803, 8504, 23590, 51494>>,
       <<19756, 28156, 23236, 10989>>, <<21304, 3347, 40341, 46047>>,
       <<25866, 29524, 35759, 25566>>, <<30314, 2747, 15479, 45736>>,
       <<33218, 51502, 18413, 44774>>, <<37490, 11397, 5250, 13627>>,
       <<41663, 59553, 19697, 868>>, <<43034, 26187, 48194, 12289>>,
       <<49739, 35696, 53496, 38801>>, <<51052, 20899, 1620, 48688>>,
       <<53650, 59417, 55023, 21016>>, <<54937, 1572, 21861, 43280>>,
       <<62478, 13701, 22385, 8234>>, <<4202, 41072, 12987, 53688>>,
       <<6564, 49430, 47314, 53448>>, <<7735, 27656, 20801, 43859>>,
       <<10056, 30540, 57230, 60313>>, <<13488, 48309, 57755, 18600>>,
       <<14620, 3251, 50633, 23139>>, <<20184, 43594, 58177, 35531>>,
       <<23452, 51791, 30563, 58227>>, <<26670, 28659, 54962, 47267>>,
       <<29839, 33518, 24047, 45820>>, <<30885, 25455, 17175, 12128>>,
       <<33992, 30740, 41456, 43890>>, <<36039, 520, 6756, 14828>>,
       <<37054, 65530, 9059, 7720>>, <<42064, 27883, 56962, 48617>>,
       <<48889, 41975, 45766, 30997>>, <<50801, 30962, 58226, 21291>>,
       <<51751, 16078, 59942, 24988>>, <<53638, 47303, 8640, 49671>>,
       <<60122, 32214, 52704, 60190>>, <<62845, 20351, 61038, 53624>>,
       <<1776, 26538, 29207, 28602>>, <<2659, 32197, 41672, 39078>>,
       <<4415, 38916, 48889, 3502>>, <<7025, 2869, 4892, 18203>>,
       <<10459, 30709, 8964, 32132>>, <<13002, 43899, 16583, 9363>>,
       <<15518, 48650, 5577, 48828>>, <<17181, 26564, 39952, 3404>>,
       <<19653, 54462, 52030, 17078>>, <<22911, 10652, 64613, 32298>>,
       <<24523, 28587, 15062, 64236>>, <<27716, 6540, 19015, 22551>> >>

Sha512IV ==
    << <<27145, 58983, 62396, 51464>>, <<47975, 44677, 33994, 42811>>,
       <<15470, 62322, 65172, 63531>>, <<42319, 62778, 24349, 14065>>,
       <<20750, 21119, 44518, 33489>>, <<39685, 26764, 11070, 27679>>,
       <<8067, 55723, 64321, 48491>>, <<23520, 52505, 4990, 8569>> >>

Sha512Ch[e \in Word64, f \in Word64, g \in Word64] ==
    Xor64[And64[e, f], And64[Not64[e], g]]
Sha512Maj[a \in Word64, b \in Word64, c \in Word64] ==
    Xor64[Xor64[And64[a, b], And64[a, c]], And64[b, c]]
Sha512BigSigma0[a \in Word64] == Xor64[Xor64[Rotr64[a, 28], Rotr64[a, 34]], Rotr64[a, 39]]
Sha512BigSigma1[e \in Word64] == Xor64[Xor64[Rotr64[e, 14], Rotr64[e, 18]], Rotr64[e, 41]]
Sha512SmallSigma0[x \in Word64] == Xor64[Xor64[Rotr64[x, 1], Rotr64[x, 8]], Shr64[x, 7]]
Sha512SmallSigma1[x \in Word64] == Xor64[Xor64[Rotr64[x, 19], Rotr64[x, 61]], Shr64[x, 6]]
Sha512Schedule[w \in Words64] ==
    IF Len(w) = 80 THEN w
    ELSE Sha512Schedule[Append(w,
             Add64[Add64[Sha512SmallSigma1[w[Len(w) - 1]], w[Len(w) - 6]],
                   Add64[Sha512SmallSigma0[w[Len(w) - 14]], w[Len(w) - 15]]])]
Sha512T1[t \in 0..79, s \in Words64, w \in Words64] ==
    Add64[Add64[Add64[s[8], Sha512BigSigma1[s[5]]],
                Add64[Sha512Ch[s[5], s[6], s[7]], Sha512K[t + 1]]], w[t + 1]]
Sha512Step[s \in Words64, t1 \in Word64, t2 \in Word64] ==
    <<Add64[t1, t2], s[1], s[2], s[3], Add64[s[4], t1], s[5], s[6], s[7]>>
Sha512Rounds[t \in 0..80, s \in Words64, w \in Words64] ==
    IF t = 80 THEN s
    ELSE Sha512Rounds[t + 1, Sha512Step[s, Sha512T1[t, s, w],
                               Add64[Sha512BigSigma0[s[1]], Sha512Maj[s[1], s[2], s[3]]]], w]
AddWords64[h \in Words64, s \in Words64] == [i \in DOMAIN h |-> Add64[h[i], s[i]]]
Sha512Compress[h \in Words64, block \in Bytes] ==
    AddWords64[h, Sha512Rounds[0, h, Sha512Schedule[Block64[block]]]]
Sha512Blocks[h \in Words64, data \in Bytes] ==
    IF Len(data) = 0 THEN h
    ELSE Sha512Blocks[Sha512Compress[h, SubSeq(data, 1, 128)],
                      SubSeq(data, 129, Len(data))]
Words64Bytes[h \in Words64] ==
    IF Len(h) = 0 THEN <<>> ELSE Word64Bytes[Head(h)] \o Words64Bytes[Tail(h)]
Sha512[msg \in Bytes] == Words64Bytes[Sha512Blocks[Sha512IV, ShaPad[msg, 128, 16]]]

(***************************************************************************)
(* HMAC (RFC 2104) as createHmac(algorithm, key).update(msg).digest()      *)
(* computes it.  OpenSSL knows more digests than the three the interface   *)
(* HotpOptions names; SHA224 stands for those here.                        *)
(***************************************************************************)
OpenSslDigests == {"SHA1", "SHA224", "SHA256", "SHA512"}

Digest[algorithm \in OpenSslDigests, msg \in Bytes] ==
    CASE algorithm = "SHA1" -> Sha1[msg]
      [] algorithm = "SHA224" -> Sha224[msg]
      [] algorithm = "SHA256" -> Sha256[msg]
      [] algorithm = "SHA512" -> Sha512[msg]

BlockSize[algorithm \in OpenSslDigests] == IF algorithm = "SHA512" THEN 128 ELSE 64

XorPad[key \in Bytes, c \in Byte, n \in Nat] ==
    IF n = 0 THEN <<>>
    ELSE XorPad[key, c, n - 1] \o <<BitXor[IF n <= Len(key) THEN key[n] ELSE 0, c]>>

\* a key longer than a block is replaced by its digest
HmacKey[algorithm \in OpenSslDigests, key \in Bytes] ==
    IF Len(key) > BlockSize[algorithm] THEN Digest[algorithm, key] ELSE key

HmacOf[algorithm \in OpenSslDigests, k \in Bytes, msg \in Bytes] ==
    Digest[algorithm, XorPad[k, 92, BlockSize[algorithm]]
               \o Digest[algorithm, XorPad[k, 54, BlockSize[algorithm]] \o msg]]

Hmac[algorithm \in OpenSslDigests, key \in Bytes, msg \in Bytes] ==
    HmacOf[algorithm, HmacKey[algorithm, key], msg]

(***************************************************************************)
(* Characters and strings.  A string is a sequence of one-character        *)
(* strings; the characters modelled are the ASCII letters and digits.      *)
(***************************************************************************)
UpperChars ==
    <<"A", "B", "C", "D", "E", "F", "G", "H", "I", "J", "K", "L", "M", "N", "O", "P",
      "Q", "R", "S", "T", "U", "V", "W", "X", "Y", "Z">>
LowerChars ==
    <<"a", "b", "c", "d", "e", "f", "g", "h", "i", "j", "k", "l", "m", "n", "o", "p",
      "q", "r", "s", "t", "u", "v", "w", "x", "y", "z">>
DigitChars == <<"0", "1", "2", "3", "4", "5", "6", "7", "8", "9">>

Range(s) == {s[i] : i \in 1..Len(s)}
IndexOf(s, c) == CHOOSE i \in 1..Len(s) : s[i] = c

\* the UTF-8 encoding of an ASCII character is its code
CharCode(c) ==
    IF c \in Range(DigitChars) THEN 47 + IndexOf(DigitChars, c)
    ELSE IF c \in Range(UpperChars) THEN 64 + IndexOf(UpperChars, c)
    ELSE 96 + IndexOf(LowerChars, c)

\* Buffer.from(str, "utf8")
BufferFrom(str) == [i \in 1..Len(str) |-> CharCode(str[i])]

\* Number.prototype.toString of a non-negative integer
NumberToString[n \in Nat] ==
    IF n < 10 THEN <<DigitChars[n + 1]>>
    ELSE NumberToString[n \div 10] \o <<DigitChars[(n % 10) + 1]>>

\* String.prototype.padStart with a pad string of one character
padStart(str, targetLength, padChar) ==
    [i \in 1..(IF targetLength > Len(str) THEN targetLength - Len(str) ELSE 0) |-> padChar]
        \o str

ToUpperChar(c) == IF c \in Range(LowerChars) THEN UpperChars[IndexOf(LowerChars, c)] ELSE c
ToLowerChar(c) == IF c \in Range(UpperChars) THEN LowerChars[IndexOf(UpperChars, c)] ELSE c
toUpperCase(str) == [i \in 1..Len(str) |-> ToUpperChar(str[i])]
toLowerCase(str) == [i \in 1..Len(str) |-> ToLowerChar(str[i])]

(***************************************************************************)
(* JavaScript numbers as hotp's counter: an integer is a sign and a        *)
(* magnitude of five 16-bit limbs (most significant first), so that the    *)
(* values around 2^31, 2^32, 2^53 and 2^64 can be written; NaN and the     *)
(* infinities are values of their own kind.                                *)
(***************************************************************************)
Finite(neg, mag) == [kind |-> "finite", neg |-> neg, mag |-> mag]
NaN == [kind |-> "NaN", neg |-> FALSE, mag |-> <<0, 0, 0, 0, 0>>]
Infinity == [kind |-> "Infinity", neg |-> FALSE, mag |-> <<0, 0, 0, 0, 0>>]
\* the counter of a call that is not hotp's
NoCounter == [kind |-> "none", neg |-> FALSE, mag |-> <<0, 0, 0, 0, 0>>]

Num(n) ==
    Finite(n < 0, <<0, 0, 0, (IF n < 0 THEN 0 - n ELSE n) \div 65536,
                    (IF n < 0 THEN 0 - n ELSE n) % 65536>>)

IsFinite(v) == v.kind = "finite"

\* ToInt32: the value modulo 2^32, read as a signed 32-bit integer; 0 when not finite
ToInt32(v) ==
    IF ~IsFinite(v) THEN 0
    ELSE LET hi == v.mag[4]
             lo == v.mag[5]
             tlo == IF v.neg THEN (65536 - lo) % 65536 ELSE lo
             thi == IF v.neg
                    THEN (65536 - hi - (IF lo = 0 THEN 0 ELSE 1)) % 65536
                    ELSE hi
         IN  IF thi >= 32768 THEN ((thi - 65536) * 65536) + tlo ELSE (thi * 65536) + tlo

\* x & mask for a 32-bit integer x and a mask 2^k - 1
MaskLow(x, mask) == x % (mask + 1)
\* x >> n for a 32-bit integer x (arithmetic shift: the sign is kept)
ShiftRight(x, n) == x \div Pow2[n]

(***************************************************************************)
(* The state: the last call and what it left, and the calls made so far.   *)
(* The class keeps no state of its own (its only static member, charsets,  *)
(* is never assigned).                                                     *)
(***************************************************************************)
VARIABLES
    call,           \* the last call: its operation and arguments
    outcome,        \* "ok" with the returned string, or "throw" with the error
    hotpCounter,    \* the counter hotp was given by the last call
    counterBuffer,  \* the 8 bytes hotp gave to the HMAC in the last call
    hmacCalls,      \* HMAC digests computed by the last call
    randomDraws,    \* the values randomInt returned in the last call
    runLog,         \* the arguments options.run was called with in the last call
    truncation,     \* the digest the last call truncated, and what it read and got
    log             \* every call so far with its outcome, oldest first

vars ==
    <<call, outcome, hotpCounter, counterBuffer, hmacCalls, randomDraws, runLog,
      truncation, log>>

NoCall == [op |-> "none"]
NoOutcome == [status |-> "none", value |-> <<>>, error |-> ""]

\* no digest was truncated
NoTruncation == [hmacResult |-> <<>>, offset |-> 0, reads |-> {}, binary |-> 0]

\* what a call leaves to observe besides its outcome
NoEffects ==
    [hotpCounter |-> NoCounter, counterBuffer |-> <<>>, hmacCalls |-> 0,
     randomDraws |-> <<>>, runLog |-> <<>>, truncation |-> NoTruncation]
Returned(value, effects) ==
    [status |-> "ok", value |-> value, error |-> "", effects |-> effects]
Thrown(error, effects) ==
    [status |-> "throw", value |-> <<>>, error |-> error, effects |-> effects]

(***************************************************************************)
(* hotp (index.ts 228-263).                                                *)
(***************************************************************************)
\* line 240: Buffer.alloc(8)
BufferAlloc(n) == [i \in 1..n |-> 0]

\* lines 241-245: the loop over i = 7 .. 0 on tempCounter
FillCounterBuffer[buf \in Bytes, tempCounter \in Int, i \in -1..7] ==
    IF i < 0 THEN buf
    ELSE FillCounterBuffer[[buf EXCEPT ![i + 1] = MaskLow(tempCounter, 255)],
                           ShiftRight(tempCounter, 8), i - 1]

\* tempCounter = counter meets & and >>, which work on ToInt32 of their operand
EncodeCounter(counter) == FillCounterBuffer[BufferAlloc(8), ToInt32(counter), 7]

\* hmacResult[i], undefined outside the buffer; & turns undefined into 0
ByteAt(hmacResult, i) ==
    IF i \in 0..(Len(hmacResult) - 1) THEN hmacResult[i + 1] ELSE 0

\* a variant that takes the offset from the first byte of the digest
TruncOffsetFirstByte(hmacResult) == MaskLow(ByteAt(hmacResult, 0), 15)

\* a variant that keeps five bits of the last byte
TruncOffsetFiveBits(hmacResult) == MaskLow(ByteAt(hmacResult, Len(hmacResult) - 1), 31)

\* line 253
TruncOffset(hmacResult) == MaskLow(ByteAt(hmacResult, Len(hmacResult) - 1), 15)

\* lines 254-258
TruncBinary(hmacResult) ==
    (MaskLow(ByteAt(hmacResult, TruncOffset(hmacResult)), 127) * 16777216)
      + (MaskLow(ByteAt(hmacResult, TruncOffset(hmacResult) + 1), 255) * 65536)
      + (MaskLow(ByteAt(hmacResult, TruncOffset(hmacResult) + 2), 255) * 256)
      + MaskLow(ByteAt(hmacResult, TruncOffset(hmacResult) + 3), 255)

\* lines 252-258 on the digest hmacResult: the offset, the indices of hmacResult
\* that are read for binary, and binary
DynamicTruncation(hmacResult) ==
    [hmacResult |-> hmacResult,
     offset |-> TruncOffset(hmacResult),
     reads |-> {TruncOffset(hmacResult) + k : k \in 0..3},
     binary |-> TruncBinary(hmacResult)]

Pow10[d \in Nat] == IF d = 0 THEN 1 ELSE 10 * Pow10[d - 1]

\* line 261: binary % 10 ** digits, for 0 <= binary < 2^31 and an integer digits >= 0
\* (10 ** digits exceeds binary from digits = 10 on)
CodeOf(binary, digits) == IF digits >= 10 THEN binary ELSE binary % Pow10[digits]

\* a variant that does not pad
FormatCodeUnpadded(code, digits) == NumberToString[code]

\* line 262
FormatCode(code, digits) == padStart(NumberToString[code], digits, "0")

(***************************************************************************)
(* totp's counter (index.ts 284): Math.floor(timestamp / 1000 / period).   *)
(* The two divisions are floating point; for the integers used here the    *)
(* rounding is far smaller than the distance of the quotient to the next   *)
(* integer, so the floor is that of the real quotient.  A division by zero *)
(* gives NaN or an infinity, which Math.floor returns as it is.            *)
(***************************************************************************)
\* a variant that takes the timestamp for seconds
TotpCounterOfSeconds(timestamp, period) ==
    IF period = 0 THEN NaN ELSE Num(timestamp \div period)

\* a variant that rounds to the nearest step instead of taking the floor
TotpCounterRounded(timestamp, period) ==
    IF period <= 0 THEN NaN
    ELSE Num(((2 * timestamp) + (1000 * period)) \div (2000 * period))

TotpCounter(timestamp, period) ==
    IF period = 0
    THEN IF timestamp = 0 THEN NaN ELSE [Infinity EXCEPT !.neg = timestamp < 0]
    ELSE IF period > 0 THEN Num(timestamp \div (1000 * period))
    ELSE Num(0 - ((timestamp + (1000 * (0 - period)) - 1) \div (1000 * (0 - period))))

(***************************************************************************)
(* The inputs hotp and totp are called with.                               *)
(***************************************************************************)
MaxCounter == 9
MaxDigits == 11

RfcSecret ==
    <<"1", "2", "3", "4", "5", "6", "7", "8", "9", "0",
      "1", "2", "3", "4", "5", "6", "7", "8", "9", "0">>
Secrets == {RfcSecret, <<"M", "y", "S", "e", "c", "r", "e", "t">>}

\* 2^31 - 1, 2^31, 2^32 - 1, 2^32, 2^32 + 1, 2^53 - 1, 2^64 - 2048, 2^64, -1
BigCounters ==
    { Finite(FALSE, <<0, 0, 0, 32767, 65535>>),
      Finite(FALSE, <<0, 0, 0, 32768, 0>>),
      Finite(FALSE, <<0, 0, 0, 65535, 65535>>),
      Finite(FALSE, <<0, 0, 1, 0, 0>>),
      Finite(FALSE, <<0, 0, 1, 0, 1>>),
      Finite(FALSE, <<0, 31, 65535, 65535, 65535>>),
      Finite(FALSE, <<0, 65535, 65535, 65535, 63488>>),
      Finite(FALSE, <<1, 0, 0, 0, 0>>),
      Finite(TRUE, <<0, 0, 0, 0, 1>>) }
Counters == {Num(n) : n \in 0..MaxCounter} \cup BigCounters

\* the tags of HotpOptions.algorithm, one more digest OpenSSL knows, one it does not
SupportedAlgorithms == {"SHA1", "SHA256", "SHA512"}
Algorithms == SupportedAlgorithms \cup {"SHA224", "invalid"}

DigitsSet == 0..MaxDigits
Periods == {-30, 0, 30, 60}
Timestamps == {0, 999, 1000, 29999, 30000, 59000, 59999, 60000}

\* hotp is called with every counter under the RFC secret and SHA1, and with
\* every secret and algorithm under the first counters
HotpInputs ==
    ({RfcSecret} \X Counters \X {"SHA1"} \X DigitsSet)
        \cup (Secrets \X {Num(0), Num(1)} \X Algorithms \X DigitsSet)
TotpInputs == Secrets \X Algorithms \X DigitsSet \X Periods \X Timestamps

\* the time steps totp is called in when its timestamp moves on, their periods,
\* and the places inside a step: its first two milliseconds, its middle, its last
MaxStep == 2
ClockPeriods == {1, 30, 60}
ClockTimestamps(period) ==
    {(k * period * 1000) + d :
        k \in 0..MaxStep, d \in {0, 1, 500 * period, (1000 * period) - 1}}

(***************************************************************************)
(* createHmac(algorithm, secretBuffer).update(counterBuffer).digest()      *)
(* (index.ts 248-250).  The digests the calls above ask for are tabulated, *)
(* so that each one is computed once.                                      *)
(***************************************************************************)
HmacInputs ==
    {<<x[3], BufferFrom(x[1]), EncodeCounter(x[2])>> : x \in HotpInputs}
        \cup {<<x[2], BufferFrom(x[1]), EncodeCounter(TotpCounter(x[5], x[4]))>> :
                 x \in TotpInputs}
        \cup {<<algorithm, BufferFrom(RfcSecret), EncodeCounter(Num(k))>> :
                 algorithm \in SupportedAlgorithms, k \in 0..(MaxStep + 1)}
HmacTable ==
    [x \in {y \in HmacInputs : y[1] \in OpenSslDigests} |-> Hmac[x[1], x[2], x[3]]]

HmacDigest(algorithm, secretBuffer, buffer) ==
    IF <<algorithm, secretBuffer, buffer>> \in DOMAIN HmacTable
    THEN HmacTable[<<algorithm, secretBuffer, buffer>>]
    ELSE Hmac[algorithm, secretBuffer, buffer]

HotpEffects(counter, buffer, n, truncated) ==
    [hotpCounter |-> counter, counterBuffer |-> buffer, hmacCalls |-> n,
     randomDraws |-> <<>>, runLog |-> <<>>, truncation |-> truncated]

\* hotp as it would be with the secret's buffer kept from the call before
hotpKeepingSecret(secret, counter, algorithm, digits) ==
    LET kept == IF call.op \in {"hotp", "totp"} THEN call.secret ELSE secret
    IN  Returned(FormatCode(CodeOf(TruncBinary(HmacDigest(algorithm, BufferFrom(kept),
                                                          EncodeCounter(counter))),
                                   digits), digits),
                 HotpEffects(counter, EncodeCounter(counter), 1,
                             DynamicTruncation(HmacDigest(algorithm, BufferFrom(kept),
                                                          EncodeCounter(counter)))))

\* createHmac throws for a digest OpenSSL does not know, after both buffers are built
hotp(secret, counter, algorithm, digits) ==
    IF algorithm \notin OpenSslDigests
    THEN Thrown("ERR_CRYPTO_INVALID_DIGEST",
                HotpEffects(counter, EncodeCounter(counter), 0, NoTruncation))
    ELSE Returned(FormatCode(CodeOf(TruncBinary(HmacDigest(algorithm, BufferFrom(secret),
                                                           EncodeCounter(counter))),
                                    digits), digits),
                  HotpEffects(counter, EncodeCounter(counter), 1,
                              DynamicTruncation(HmacDigest(algorithm, BufferFrom(secret),
                                                           EncodeCounter(counter)))))

\* index.ts 277-286
totp(secret, algorithm, digits, period, timestamp) ==
    hotp(secret, TotpCounter(timestamp, period), algorithm, digits)

(***************************************************************************)
(* generateOtp (index.ts 119-152) and its shorthands.                      *)
(***************************************************************************)
\* a JavaScript value that chars can hold: a string, undefined, or a function
\* with its length property
StringValue(str) == [type |-> "string", str |-> str, length |-> Len(str)]
Undefined == [type |-> "undefined", str |-> <<>>, length |-> 0]
FunctionValue(n) == [type |-> "function", str |-> <<>>, length |-> n]

CharsValues == [type : STRING, str : Seq(STRING), length : Nat]

\* a charset argument: a name, or an object { custom }
Named(name) == [name |-> name, custom |-> <<>>]
Custom(str) == [name |-> "", custom |-> str]

\* lines 97-103, read as this.charsets[name]: an own property, or what the
\* prototype of the object literal holds under that name
charsets(name) ==
    CASE name = "numeric" -> StringValue(DigitChars)
      [] name = "alphabetic" -> StringValue(UpperChars \o LowerChars)
      [] name = "alphanumeric" -> StringValue(UpperChars \o LowerChars \o DigitChars)
      [] name = "hex" -> StringValue(DigitChars \o SubSeq(LowerChars, 1, 6))
      [] name = "constructor" -> FunctionValue(1)
      [] OTHER -> Undefined

\* lines 126-129
SelectChars(charset) ==
    IF charset.name # "" THEN charsets(charset.name) ELSE StringValue(charset.custom)

\* !chars
Falsy(v) == v.type = "undefined" \/ (v.type = "string" /\ v.length = 0)

SimilarChars == {"O", "0", "I", "l"}
\* line 134: chars.replace(/[O0Il]/g, "")
ExcludeSimilar(str) == SelectSeq(str, LAMBDA c : c \notin SimilarChars)

\* lines 137-141
ApplyCase(str, case) ==
    IF case = "upper" THEN toUpperCase(str)
    ELSE IF case = "lower" THEN toLowerCase(str)
    ELSE str

\* lines 133-141 on a string
PrepareChars(str, options) ==
    ApplyCase(IF options.excludeSimilar THEN ExcludeSimilar(str) ELSE str, options.case)

\* lines 133-141 call a string method when an option asks for it
NeedsString(options) == options.excludeSimilar \/ options.case \in {"upper", "lower"}

\* chars as the loop reads it
LoopChars(charset, options) ==
    IF SelectChars(charset).type = "string"
    THEN StringValue(PrepareChars(SelectChars(charset).str, options))
    ELSE SelectChars(charset)

\* a variant whose upper end is included
randomIntInclusive(min, max) == min..max

\* the values randomInt(min, max) can return (line 145); none when max <= min,
\* where randomInt throws
randomInt(min, max) == min..(max - 1)

\* chars[randIndex] appended to a string (line 146)
CharAt(chars, randIndex) ==
    IF chars.type = "string" /\ randIndex < chars.length
    THEN <<chars.str[randIndex + 1]>>
    ELSE <<"u", "n", "d", "e", "f", "i", "n", "e", "d">>

\* lines 143-147, with randIndex taken from draws
OtpOf[chars \in CharsValues, draws \in Seq(Nat)] ==
    IF Len(draws) = 0 THEN <<>>
    ELSE OtpOf[chars, SubSeq(draws, 1, Len(draws) - 1)] \o CharAt(chars, draws[Len(draws)])

\* whether the call reaches the loop with a range randomInt accepts
ReachesLoop(length, charset, options) ==
    /\ length > 0
    /\ ~Falsy(SelectChars(charset))
    /\ (NeedsString(options) => SelectChars(charset).type = "string")
    /\ randomInt(0, LoopChars(charset, options).length) # {}

\* the sequences of values randomInt can return during the call
RandomDraws(length, charset, options) ==
    IF ReachesLoop(length, charset, options)
    THEN [1..length -> randomInt(0, LoopChars(charset, options).length)]
    ELSE {<<>>}

\* a variant in which the callback is called for every character drawn
GenerateEffectsRunPerDraw(draws, ran) ==
    [hotpCounter |-> NoCounter, counterBuffer |-> <<>>, hmacCalls |-> 0,
     randomDraws |-> draws,
     runLog |-> IF Len(ran) = 0 THEN <<>> ELSE [i \in 1..Len(draws) |-> ran[1]],
     truncation |-> NoTruncation]

GenerateEffects(draws, ran) ==
    [hotpCounter |-> NoCounter, counterBuffer |-> <<>>, hmacCalls |-> 0,
     randomDraws |-> draws, runLog |-> ran, truncation |-> NoTruncation]

generateOtp(length, charset, options, draws) ==
    IF length <= 0 THEN Thrown("OTP length must be > 0", NoEffects)
    ELSE IF Falsy(SelectChars(charset)) THEN Thrown("Invalid charset", NoEffects)
    ELSE IF NeedsString(options) /\ SelectChars(charset).type # "string"
    THEN Thrown("TypeError", NoEffects)
    ELSE IF randomInt(0, LoopChars(charset, options).length) = {}
    THEN Thrown("ERR_OUT_OF_RANGE", NoEffects)
    ELSE Returned(OtpOf[LoopChars(charset, options), draws],
                  GenerateEffects(draws,
                                  IF options.run
                                  THEN <<OtpOf[LoopChars(charset, options), draws]>>
                                  ELSE <<>>))

\* options = {}
NoOptions == [excludeSimilar |-> FALSE, case |-> "none", run |-> FALSE]

\* lines 165-167, 181-183, 197-199, 212-214
numeric(length, draws) == generateOtp(length, Named("numeric"), NoOptions, draws)
alphabetic(length, opts, draws) == generateOtp(length, Named("alphabetic"), opts, draws)
alphanumeric(length, opts, draws) == generateOtp(length, Named("alphanumeric"), opts, draws)
hex(length, draws) == generateOtp(length, Named("hex"), NoOptions, draws)

(***************************************************************************)
(* The inputs generateOtp is called with.                                  *)
(***************************************************************************)
MaxLength == 2

Lengths == -1..MaxLength
\* the charsets of more than 16 characters are drawn from once
ShortLengths == {n \in Lengths : n <= 1}
CharsetNames == {"numeric", "alphabetic", "alphanumeric", "hex", "invalid", "constructor"}
CustomStrings == {<<>>, <<"a", "B", "1">>, <<"O", "0", "I", "l">>, <<"L", "i", "o", "X">>}
Charsets == {Named(n) : n \in CharsetNames} \cup {Custom(s) : s \in CustomStrings}
LongCharsets == {Named("alphabetic"), Named("alphanumeric")}
OptionsSet ==
    [excludeSimilar : BOOLEAN, case : {"none", "upper", "lower", "mixed"}, run : BOOLEAN]
GenerateOtpInputs ==
    (ShortLengths \X Charsets \X OptionsSet)
        \cup (Lengths \X (Charsets \ LongCharsets) \X OptionsSet)

(***************************************************************************)
(* The calls.                                                              *)
(***************************************************************************)
Init ==
    /\ call = NoCall
    /\ outcome = NoOutcome
    /\ hotpCounter = NoCounter
    /\ counterBuffer = <<>>
    /\ hmacCalls = 0
    /\ randomDraws = <<>>
    /\ runLog = <<>>
    /\ truncation = NoTruncation
    /\ log = <<>>

OutcomeOf(r) == [status |-> r.status, value |-> r.value, error |-> r.error]

\* the call c ends with the result r
Finish(c, r) ==
    /\ call' = c
    /\ outcome' = OutcomeOf(r)
    /\ hotpCounter' = r.effects.hotpCounter
    /\ counterBuffer' = r.effects.counterBuffer
    /\ hmacCalls' = r.effects.hmacCalls
    /\ randomDraws' = r.effects.randomDraws
    /\ runLog' = r.effects.runLog
    /\ truncation' = r.effects.truncation
    /\ log' = Append(log, [call |-> c, outcome |-> OutcomeOf(r),
                           counter |-> r.effects.hotpCounter])

HotpCall(secret, counter, algorithm, digits) ==
    Finish([op |-> "hotp", secret |-> secret, counter |-> counter,
            algorithm |-> algorithm, digits |-> digits],
           hotp(secret, counter, algorithm, digits))

TotpCall(secret, algorithm, digits, period, timestamp) ==
    Finish([op |-> "totp", secret |-> secret, algorithm |-> algorithm,
            digits |-> digits, period |-> period, timestamp |-> timestamp],
           totp(secret, algorithm, digits, period, timestamp))

GenerateOtpCall(length, charset, options) ==
    \E draws \in RandomDraws(length, charset, options) :
        Finish([op |-> "generateOtp", length |-> length, charset |-> charset,
                options |-> options],
               generateOtp(length, charset, options, draws))

\* the first call of a behaviour, for each operation
Hotp ==
    /\ call = NoCall
    /\ \E <<secret, counter, algorithm, digits>> \in HotpInputs :
           HotpCall(secret, counter, algorithm, digits)

Totp ==
    /\ call = NoCall
    /\ \E <<secret, algorithm, digits, period, timestamp>> \in TotpInputs :
           TotpCall(secret, algorithm, digits, period, timestamp)

GenerateOtp ==
    /\ call = NoCall
    /\ \E <<length, charset, options>> \in GenerateOtpInputs :
           GenerateOtpCall(length, charset, options)

Numeric ==
    /\ call = NoCall
    /\ \E length \in Lengths :
           \E draws \in RandomDraws(length, Named("numeric"), NoOptions) :
               Finish([op |-> "numeric", length |-> length,
                       charset |-> Named("numeric"), options |-> NoOptions],
                      numeric(length, draws))

Alphabetic ==
    /\ call = NoCall
    /\ \E length \in ShortLengths, opts \in OptionsSet :
           \E draws \in RandomDraws(length, Named("alphabetic"), opts) :
               Finish([op |-> "alphabetic", length |-> length,
                       charset |-> Named("alphabetic"), options |-> opts],
                      alphabetic(length, opts, draws))

Alphanumeric ==
    /\ call = NoCall
    /\ \E length \in ShortLengths, opts \in OptionsSet :
           \E draws \in RandomDraws(length, Named("alphanumeric"), opts) :
               Finish([op |-> "alphanumeric", length |-> length,
                       charset |-> Named("alphanumeric"), options |-> opts],
                      alphanumeric(length, opts, draws))

Hex ==
    /\ call = NoCall
    /\ \E length \in Lengths :
           \E draws \in RandomDraws(length, Named("hex"), NoOptions) :
               Finish([op |-> "hex", length |-> length, charset |-> Named("hex"),
                       options |-> NoOptions],
                      hex(length, draws))

Next == Hotp \/ Totp \/ GenerateOtp \/ Numeric \/ Alphabetic \/ Alphanumeric \/ Hex

Spec == Init /\ [][Next]_vars

(***************************************************************************)
(* Calls one after the other: hotp, totp and generateOtp in every order,   *)
(* up to MaxCalls calls.                                                   *)
(***************************************************************************)
MaxCalls == 3

InterleavedHotp ==
    /\ Len(log) < MaxCalls
    /\ \E secret \in Secrets, counter \in {Num(0), Num(1)} :
           HotpCall(secret, counter, "SHA1", 6)

InterleavedTotp ==
    /\ Len(log) < MaxCalls
    /\ \E timestamp \in {0, 59000} : TotpCall(RfcSecret, "SHA1", 6, 30, timestamp)

InterleavedGenerateOtp ==
    /\ Len(log) < MaxCalls
    /\ GenerateOtpCall(1, Custom(<<"a", "B", "1">>), NoOptions)

InterleavedNext == InterleavedHotp \/ InterleavedTotp \/ InterleavedGenerateOtp

Interleaved == Init /\ [][InterleavedNext]_vars

(***************************************************************************)
(* totp (index.ts 277-286) called again and again with the same secret,    *)
(* algorithm, digits and period while the timestamp varies.                *)
(***************************************************************************)
ClockCalls == 2

ClockTotp ==
    /\ Len(log) < ClockCalls
    /\ \E algorithm \in SupportedAlgorithms, period \in ClockPeriods :
           /\ log # <<>> =>
                  /\ algorithm = log[1].call.algorithm
                  /\ period = log[1].call.period
           /\ \E timestamp \in ClockTimestamps(period) :
                  TotpCall(RfcSecret, algorithm, 6, period, timestamp)

ClockNext == ClockTotp

Clock == Init /\ [][ClockNext]_vars

(***************************************************************************)
(* The dynamic truncation of hotp (index.ts 252-258) on digests of the     *)
(* lengths SHA1, SHA256 and SHA512 give.  A digest is drawn with its last  *)
(* byte, the four bytes at the offset that byte selects, and one value for *)
(* every other byte.                                                       *)
(***************************************************************************)
DigestLengths == {20, 32, 64}
LastBytes == {n + h : n \in 0..15, h \in {0, 240}}
WindowBytes == {0, 127, 128, 255}
FillBytes == {0, 255}

SampleDigest(len, last, window, fill) ==
    [i \in 1..len |->
        IF i = len THEN last
        ELSE IF i - 1 \in (last % 16)..((last % 16) + 3) THEN window[i - (last % 16)]
        ELSE fill]

Truncate ==
    /\ call = NoCall
    /\ \E len \in DigestLengths, last \in LastBytes, fill \in FillBytes :
           \E window \in [1..4 -> WindowBytes] :
               /\ call' = [op |-> "truncate", length |-> len]
               /\ truncation' = DynamicTruncation(SampleDigest(len, last, window, fill))
               /\ UNCHANGED <<outcome, hotpCounter, counterBuffer, hmacCalls,
                              randomDraws, runLog, log>>

TruncationNext == Truncate

Truncation == Init /\ [][TruncationNext]_vars

(***************************************************************************)
(* The claims.                                                             *)
(***************************************************************************)
HotpOps == {"hotp", "totp"}
GenerateOps == {"generateOtp", "numeric", "alphabetic", "alphanumeric", "hex"}

\* a counter in 0 .. 2^64 - 1
InRange64(c) == IsFinite(c) /\ (~c.neg) /\ c.mag[1] = 0
\* the 8 bytes of such a counter, most significant first
BigEndian(c) ==
    <<c.mag[2] \div 256, c.mag[2] % 256, c.mag[3] \div 256, c.mag[3] % 256,
      c.mag[4] \div 256, c.mag[4] % 256, c.mag[5] \div 256, c.mag[5] % 256>>

\* C1: for every counter in 0 .. 2^64 - 1 the buffer hotp gives to the HMAC is the
\* big-endian encoding of the counter, without sign extension or truncation (stated
\* for calls whose other arguments are valid).
C1_BigEndianCounter ==
    (/\ call.op = "hotp"
     /\ InRange64(call.counter)
     /\ call.algorithm \in SupportedAlgorithms
     /\ call.digits >= 1)
        => counterBuffer = BigEndian(call.counter)

\* C2: for a supported algorithm and digits >= 1, hotp returns a string of exactly
\* digits characters, all decimal digits: the decimal writing of the truncated value
\* modulo 10^digits, left-padded with "0".
C2_FixedWidth ==
    (call.op = "hotp" /\ call.algorithm \in SupportedAlgorithms /\ call.digits >= 1)
        => /\ outcome.status = "ok"
           /\ Len(outcome.value) = call.digits
           /\ \A i \in 1..Len(outcome.value) : outcome.value[i] \in Range(DigitChars)
           /\ \E k \in 0..Len(outcome.value) :
                 /\ \A i \in 1..k : outcome.value[i] = "0"
                 /\ SubSeq(outcome.value, k + 1, Len(outcome.value))
                      = NumberToString[
                          CodeOf(TruncBinary(HmacDigest(call.algorithm,
                                                        BufferFrom(call.secret),
                                                        counterBuffer)),
                                 call.digits)]

\* C2's case: a token of 10 digits or more, which starts with a padding "0"
C2_Witness ==
    /\ call.op = "hotp"
    /\ call.algorithm \in SupportedAlgorithms
    /\ call.digits >= 10
    /\ outcome.status = "ok"
    /\ Len(outcome.value) = call.digits
    /\ outcome.value[1] = "0"

\* C3: for a timestamp >= 0 in milliseconds and a period >= 1, totp returns what hotp
\* returns for counter = floor(floor(timestamp / 1000) / period); timestamp 59000
\* with period 30 gives counter 1.
C3_TotpCounter ==
    (call.op = "totp" /\ call.timestamp >= 0 /\ call.period >= 1)
        => /\ hotpCounter = Num((call.timestamp \div 1000) \div call.period)
           /\ outcome = OutcomeOf(hotp(call.secret,
                                       Num((call.timestamp \div 1000) \div call.period),
                                       call.algorithm, call.digits))
           /\ (call.timestamp = 59000 /\ call.period = 30 => hotpCounter = Num(1))

\* C3's case: totp at 59000 ms with period 30 has returned a token for counter 1
C3_Witness ==
    /\ call.op = "totp"
    /\ call.timestamp = 59000
    /\ call.period = 30
    /\ hotpCounter = Num(1)
    /\ outcome.status = "ok"
    /\ Len(outcome.value) = 6

\* C4: hotp and totp called with digits <= 0 fail with InvalidDigits before any
\* HMAC computation, and return no token (stated for calls whose other arguments
\* are valid).
C4_InvalidDigits ==
    (/\ call.op \in HotpOps
     /\ call.digits <= 0
     /\ call.algorithm \in SupportedAlgorithms
     /\ (call.op = "hotp" => InRange64(call.counter))
     /\ (call.op = "totp" => call.period >= 1))
        => outcome.status = "throw" /\ outcome.error = "InvalidDigits" /\ hmacCalls = 0

\* C5: totp called with period <= 0 fails with InvalidPeriod before any counter
\* derivation or HMAC computation, and returns no token (stated for calls whose
\* other arguments are valid).
C5_InvalidPeriod ==
    (/\ call.op = "totp"
     /\ call.period <= 0
     /\ call.algorithm \in SupportedAlgorithms
     /\ call.digits >= 1)
        => /\ outcome.status = "throw"
           /\ outcome.error = "InvalidPeriod"
           /\ hmacCalls = 0
           /\ hotpCounter = NoCounter

\* C6: hotp called with a negative counter or a counter above 2^64 - 1 fails with
\* InvalidCounter and returns no token; such a counter is never encoded into 8 bytes
\* (stated for calls whose other arguments are valid).
C6_InvalidCounter ==
    (/\ call.op = "hotp"
     /\ IsFinite(call.counter)
     /\ ~InRange64(call.counter)
     /\ call.algorithm \in SupportedAlgorithms
     /\ call.digits >= 1)
        => /\ outcome.status = "throw"
           /\ outcome.error = "InvalidCounter"
           /\ counterBuffer = <<>>

\* C7: hotp and totp called with an algorithm outside SHA1, SHA256, SHA512 fail with
\* UnsupportedAlgorithm, before any HMAC computation or other partial work (stated
\* for calls whose other arguments are valid).
C7_UnsupportedAlgorithm ==
    (/\ call.op \in HotpOps
     /\ call.algorithm \notin SupportedAlgorithms
     /\ call.digits >= 1
     /\ (call.op = "hotp" => InRange64(call.counter))
     /\ (call.op = "totp" => call.period >= 1))
        => /\ outcome.status = "throw"
           /\ outcome.error = "UnsupportedAlgorithm"
           /\ hmacCalls = 0
           /\ counterBuffer = <<>>

RfcVectors ==
    << <<"7", "5", "5", "2", "2", "4">>, <<"2", "8", "7", "0", "8", "2">>,
       <<"3", "5", "9", "1", "5", "2">>, <<"9", "6", "9", "4", "2", "9">>,
       <<"3", "3", "8", "3", "1", "4">>, <<"2", "5", "4", "6", "7", "6">>,
       <<"2", "8", "7", "9", "2", "2">>, <<"1", "6", "2", "5", "8", "3">>,
       <<"3", "9", "9", "8", "7", "1">>, <<"5", "2", "0", "4", "8", "9">> >>

\* C9: with the secret "12345678901234567890", SHA1 and 6 digits, hotp returns the
\* RFC 4226 test vectors for the counters 0 to 9.
C9_RfcVectors ==
    \A n \in 0..9 :
        (/\ call.op = "hotp"
         /\ call.secret = RfcSecret
         /\ call.algorithm = "SHA1"
         /\ call.digits = 6
         /\ call.counter = Num(n))
            => outcome = [status |-> "ok", value |-> RfcVectors[n + 1], error |-> ""]

\* C9's case: hotp has returned the last vector, for counter 9
C9_Witness ==
    /\ call.op = "hotp"
    /\ call.secret = RfcSecret
    /\ call.algorithm = "SHA1"
    /\ call.digits = 6
    /\ call.counter = Num(9)
    /\ outcome.value = <<"5", "2", "0", "4", "8", "9">>

\* the built-in charsets and the non-empty custom strings
ValidCharset(charset) ==
    \/ charset.name \in {"numeric", "alphabetic", "alphanumeric", "hex"}
    \/ (charset.name = "" /\ Len(charset.custom) > 0)

\* C10: for length >= 1 and a valid charset, a call of generateOtp or of a shorthand
\* that returns, returns exactly length characters, each of the selected charset
\* after the exclusion and the case option are applied.
C10_LengthAndCharset ==
    (/\ call.op \in GenerateOps
     /\ call.length >= 1
     /\ ValidCharset(call.charset)
     /\ outcome.status = "ok")
        => /\ Len(outcome.value) = call.length
           /\ \A i \in 1..Len(outcome.value) :
                 outcome.value[i]
                     \in Range(PrepareChars(SelectChars(call.charset).str, call.options))

\* C10's case: two characters drawn from a charset that an option has changed
C10_Witness ==
    /\ call.op = "generateOtp"
    /\ call.length = 2
    /\ call.charset = Custom(<<"a", "B", "1">>)
    /\ call.options.case = "upper"
    /\ outcome.status = "ok"
    /\ outcome.value = <<"A", "1">>

\* C11: with excludeSimilar, the string generateOtp returns holds none of "O", "0",
\* "I", "l", for every charset and every value of the case option (stated for
\* length >= 1 and a valid charset).
C11_NoSimilarChars ==
    (/\ call.op \in GenerateOps
     /\ call.length >= 1
     /\ ValidCharset(call.charset)
     /\ call.options.excludeSimilar
     /\ outcome.status = "ok")
        => \A i \in 1..Len(outcome.value) : outcome.value[i] \notin SimilarChars

C13_InvalidArguments ==
    (/\ call.op = "generateOtp"
     /\ \/ call.length <= 0
        \/ (call.charset.name # ""
               /\ call.charset.name \notin {"numeric", "alphabetic", "alphanumeric", "hex"})
        \/ (call.charset.name = "" /\ call.charset.custom = <<>>))
        => outcome.status = "throw" /\ randomDraws = <<>>

\* C14: for a digest of 20, 32 or 64 bytes, the offset is the low four bits of the
\* last byte, in 0..15; the indices read are offset..offset+3, all inside the
\* digest; and the value, the four bytes read with the top bit of the first one
\* cleared, is in 0 .. 2^31 - 1.
C14_DynamicTruncation ==
    (call.op = "truncate" /\ Len(truncation.hmacResult) \in {20, 32, 64})
        => LET H == truncation.hmacResult
               offset == truncation.offset
           IN  /\ offset = H[Len(H)] % 16
               /\ offset \in 0..15
               /\ truncation.reads = offset..(offset + 3)
               /\ truncation.reads \subseteq 0..(Len(H) - 1)
               /\ truncation.binary \in 0..2147483647
               /\ truncation.binary
                     = ((H[offset + 1] % 128) * 16777216) + (H[offset + 2] * 65536)
                         + (H[offset + 3] * 256) + H[offset + 4]

\* C14's case: a 20-byte digest with offset 15 whose bytes read are all 255, which
\* give the largest value
C14_Witness ==
    /\ call.op = "truncate"
    /\ Len(truncation.hmacResult) = 20
    /\ truncation.offset = 15
    /\ truncation.hmacResult[16] = 255
    /\ truncation.reads = 15..18
    /\ truncation.binary = 2147483647

\* the integer a finite counter below 2^32 stands for
CounterValue(v) ==
    (IF v.neg THEN 0 - 1 ELSE 1) * ((v.mag[4] * 65536) + v.mag[5])

\* two calls of totp with the same secret, algorithm, digits and period >= 1
SameClock(a, b) ==
    /\ a.call.op = "totp" /\ b.call.op = "totp"
    /\ a.call.secret = b.call.secret
    /\ a.call.algorithm = b.call.algorithm
    /\ a.call.digits = b.call.digits
    /\ a.call.period = b.call.period
    /\ a.call.period >= 1
    /\ a.call.timestamp >= 0 /\ b.call.timestamp >= 0

\* C15: for two calls of totp with the same secret, algorithm, digits and integer
\* period >= 1: timestamps inside one time step [k*period*1000,
\* (k+1)*period*1000 - 1] return the same token; from (k+1)*period*1000 - 1 to
\* (k+1)*period*1000 the counter passed to hotp grows by exactly 1; and the
\* counter does not decrease when the timestamp grows.
C15_TimeSteps ==
    \A i, j \in 1..Len(log) :
        SameClock(log[i], log[j]) =>
            LET a == log[i]
                b == log[j]
                step == 1000 * a.call.period
            IN  /\ IsFinite(a.counter) /\ IsFinite(b.counter)
                /\ (a.call.timestamp \div step = b.call.timestamp \div step)
                       => /\ a.outcome.status = "ok"
                          /\ b.outcome = a.outcome
                          /\ b.counter = a.counter
                /\ (b.call.timestamp = a.call.timestamp + 1 /\ b.call.timestamp % step = 0)
                       => CounterValue(b.counter) = CounterValue(a.counter) + 1
                /\ (a.call.timestamp <= b.call.timestamp)
                       => CounterValue(a.counter) <= CounterValue(b.counter)

\* C15's case: with period 30, totp at 29999 ms and then at 30000 ms, counters 0
\* and 1, after which the tokens differ
C15_Witness ==
    /\ Len(log) = 2
    /\ log[1].call.op = "totp" /\ log[2].call.op = "totp"
    /\ log[1].call.period = 30 /\ log[2].call.period = 30
    /\ log[1].call.timestamp = 29999 /\ log[2].call.timestamp = 30000
    /\ log[1].counter = Num(0) /\ log[2].counter = Num(1)
    /\ log[1].outcome.status = "ok" /\ log[2].outcome.status = "ok"
    /\ log[1].outcome # log[2].outcome
====
